---- MODULE Spec2Model ----
(***************************************************************************)
(* SACS v6.0 cloud backend (src/main.py): the two bounded in-memory stores *)
(* and the seven request handlers that read and write them.                *)
(*                                                                         *)
(* Scheduling.  Every handler is an `async def` whose body holds no await, *)
(* and uvicorn.run(app, ...) starts one process with one event loop, so a  *)
(* handler runs from its first line to its return without another handler  *)
(* running in between.  Each handler is therefore one action, and any      *)
(* interleaving of concurrent requests is a sequence of these actions.     *)
(*                                                                         *)
(* Time.  In Spec and SpecAnalysis every timestamp (batch_start,           *)
(* batch_end, received_at, reported_at, time.time()) is a whole number of  *)
(* hours and is written in hours: the value v stands for the float         *)
(* 3600.0 * v.  In this unit `time_range_hours * 3600` seconds is          *)
(* time_range_hours, and `total_duration / 3600` is total_duration.        *)
(* SpecSeconds runs the analysis on timestamps that are whole seconds,     *)
(* written in seconds, in the double arithmetic of the code.               *)
(***************************************************************************)
EXTENDS Integers, Sequences, FiniteSets, Bags, TLC

VARIABLES
    TELEMETRY_STORE,   \* main.py:31, list of stored batch dicts
    THREAT_DATABASE,   \* main.py:32, list of stored threat dicts
    now,               \* the value time.time() returns, in hours
    response,          \* what the handler that ran last returned (or raised)
    ingested,          \* history: every batch dict ever appended, in order
    reported           \* history: every threat dict ever appended, in order

vars == <<TELEMETRY_STORE, THREAT_DATABASE, now, response, ingested, reported>>

(***************************************************************************)
(* Bounds of the model.                                                    *)
(***************************************************************************)
\* Capacity of the telemetry store.  The code keeps the last 10000 batches
\* (main.py:78-79); the model keeps the last TELEMETRY_CAP, so that the
\* eviction is reached after a few inserts.
TELEMETRY_CAP == 2
\* Capacity of the threat store: 1000 in the code (main.py:230-231).
THREAT_CAP == 2
\* Inserts (uploads plus threat reports) in one behaviour.
MaxInserts == 3
\* Hours the clock advances in one behaviour.
MaxHours == 1

(***************************************************************************)
(* Helpers on sequences.                                                   *)
(***************************************************************************)
RECURSIVE SumTo(_, _)
SumTo(s, k) == IF k = 0 THEN 0 ELSE SumTo(s, k - 1) + s[k]

\* sum(...) of a list of integers (main.py:114, 193, 307)
SumSeq(s) == SumTo(s, Len(s))

\* Python's s[-n:] for n >= 1: the last n entries, or all of s when it is shorter
LastN(s, n) ==
    IF Len(s) <= n THEN s ELSE SubSeq(s, Len(s) - n + 1, Len(s))

\* Mutant of TelemetryTruncated: [-n:] written [:n], keeping the oldest
TelemetryKeepFirst(store) ==
    IF Len(store) > TELEMETRY_CAP THEN SubSeq(store, 1, TELEMETRY_CAP) ELSE store

\* Mutant of TelemetryTruncated: the truncation not done in this handler
TelemetryKeepAll(store) == store

\* `if len(TELEMETRY_STORE) > 10000: TELEMETRY_STORE[:] = TELEMETRY_STORE[-10000:]`
\* (main.py:78-79), with TELEMETRY_CAP for 10000
TelemetryTruncated(store) ==
    IF Len(store) > TELEMETRY_CAP THEN LastN(store, TELEMETRY_CAP) ELSE store

\* Mutant of ThreatsTruncated: the test written >=, dropping all but the newest
\* entries one insert too early
ThreatsTruncatedEarly(db) ==
    IF Len(db) >= THREAT_CAP THEN LastN(db, THREAT_CAP - 1) ELSE db

\* `if len(THREAT_DATABASE) > 1000: THREAT_DATABASE[:] = THREAT_DATABASE[-1000:]`
\* (main.py:230-231), with THREAT_CAP for 1000
ThreatsTruncated(db) ==
    IF Len(db) > THREAT_CAP THEN LastN(db, THREAT_CAP) ELSE db

(***************************************************************************)
(* Request bodies.                                                         *)
(***************************************************************************)
Devices == {"d1", "d2"}

\* TelemetryBatch (main.py:35-41): the fields are typed, not validated.  d1
\* sends a well-formed batch and one whose batch_start lies after its
\* batch_end and whose sample_count is negative; d2 sends timestamps far in
\* the future (10^8 hours = 3.6e11 s, a millisecond clock read as seconds).
FarFuture == 100 * 1000 * 1000

TelemetryBatches ==
    { [device_id |-> "d1", encrypted_data |-> "gAAAA", batch_start |-> 0,
       batch_end |-> 1, sample_count |-> 10],
      [device_id |-> "d1", encrypted_data |-> "gAAAA", batch_start |-> 2,
       batch_end |-> 0, sample_count |-> -3],
      [device_id |-> "d2", encrypted_data |-> "gAAAA", batch_start |-> FarFuture,
       batch_end |-> FarFuture, sample_count |-> 1] }

\* ThreatReport (main.py:48-54)
ThreatReports ==
    { [threat_level |-> l, confidence |-> "0.9", indicators |-> <<"jamming">>,
       recommendations |-> <<"relocate">>, timestamp |-> 0]
      : l \in {"LOW", "CRITICAL"} }

NoResponse == [kind |-> "none"]

(***************************************************************************)
(* Telemetry ingestion (main.py:60-86)                                     *)
(***************************************************************************)
\* The dict appended at main.py:68-75
StoredBatch(batch, t) ==
    [device_id |-> batch.device_id, encrypted_data |-> batch.encrypted_data,
     batch_start |-> batch.batch_start, batch_end |-> batch.batch_end,
     sample_count |-> batch.sample_count, received_at |-> t]

\* Mutant of upload_telemetry: every stored batch re-stamped with the time
\* of the new upload
upload_telemetry_restamping(batch) ==
    /\ Len(ingested) + Len(reported) < MaxInserts
    /\ LET restamped == [i \in 1 .. Len(TELEMETRY_STORE) |->
                            [TELEMETRY_STORE[i] EXCEPT !.received_at = now]]
           stored == TelemetryTruncated(
                         Append(restamped, StoredBatch(batch, now)))
       IN /\ TELEMETRY_STORE' = stored
          /\ response' = [kind |-> "upload", status |-> "success",
                          batch_id |-> Len(stored), received_at |-> now,
                          batches_stored |-> Len(stored)]
    /\ ingested' = Append(ingested, StoredBatch(batch, now))
    /\ UNCHANGED <<THREAT_DATABASE, now, reported>>

\* Mutant of upload_telemetry: the reply built before the truncation
upload_telemetry_reply_first(batch) ==
    /\ Len(ingested) + Len(reported) < MaxInserts
    /\ LET appended == Append(TELEMETRY_STORE, StoredBatch(batch, now))
       IN /\ TELEMETRY_STORE' = TelemetryTruncated(appended)
          /\ response' = [kind |-> "upload", status |-> "success",
                          batch_id |-> Len(appended), received_at |-> now,
                          batches_stored |-> Len(appended)]
    /\ ingested' = Append(ingested, StoredBatch(batch, now))
    /\ UNCHANGED <<THREAT_DATABASE, now, reported>>

upload_telemetry(batch) ==
    /\ Len(ingested) + Len(reported) < MaxInserts
    /\ LET stored == TelemetryTruncated(
                         Append(TELEMETRY_STORE, StoredBatch(batch, now)))
       IN /\ TELEMETRY_STORE' = stored
          /\ response' = [kind |-> "upload", status |-> "success",
                          batch_id |-> Len(stored), received_at |-> now,
                          batches_stored |-> Len(stored)]
    /\ ingested' = Append(ingested, StoredBatch(batch, now))
    /\ UNCHANGED <<THREAT_DATABASE, now, reported>>

(***************************************************************************)
(* IEEE-754 doubles of the threat score (main.py:134-152).                 *)
(* A double d in {0} \cup [1/16, 16) is kept as the integer d * 2^56, in   *)
(* three limbs <<h, m, l>> of 20 bits: d * 2^56 = h * 2^40 + m * 2^20 + l. *)
(* Every such double is a multiple of 2^-56, so sums and integer multiples *)
(* are exact in this form and are then rounded to 53 significant bits,     *)
(* ties to even, as the hardware does.                                     *)
(***************************************************************************)
Limb == 1024 * 1024

RECURSIVE BitLen(_)
BitLen(n) == IF n = 0 THEN 0 ELSE 1 + BitLen(n \div 2)

RECURSIVE Pow2(_)
Pow2(k) == IF k = 0 THEN 1 ELSE 2 * Pow2(k - 1)

\* carries propagated, limbs back in 0 .. Limb-1
DblNorm(h, m, l) ==
    LET m1 == m + (l \div Limb)
    IN  <<h + (m1 \div Limb), m1 % Limb, l % Limb>>

DblBits(x) ==
    IF x[1] > 0 THEN 40 + BitLen(x[1])
    ELSE IF x[2] > 0 THEN 20 + BitLen(x[2]) ELSE BitLen(x[3])

\* round-to-nearest, ties-to-even, to a 53-bit significand
RoundToDouble(x) ==
    LET r == DblBits(x) - 53
    IN  IF r <= 0 THEN x
        ELSE LET unit == Pow2(r)
                 rem  == x[3] % unit
                 odd  == (x[3] \div unit) % 2 = 1
                 up   == rem * 2 > unit \/ (rem * 2 = unit /\ odd)
             IN  DblNorm(x[1], x[2], x[3] - rem + (IF up THEN unit ELSE 0))

\* x + y in double arithmetic
DblAdd(x, y) == RoundToDouble(DblNorm(x[1] + y[1], x[2] + y[2], x[3] + y[3]))

\* k * x in double arithmetic, k a small non-negative int
DblMulInt(k, x) == RoundToDouble(DblNorm(k * x[1], k * x[2], k * x[3]))

\* x < y
DblLess(x, y) ==
    \/ x[1] < y[1]
    \/ x[1] = y[1] /\ x[2] < y[2]
    \/ x[1] = y[1] /\ x[2] = y[2] /\ x[3] < y[3]

\* Python's min(x, y): y when y < x, else x
DblMin(x, y) == IF DblLess(y, x) THEN y ELSE x

\* The literals of main.py:134-149, each the double nearest to the decimal
D0_0 == <<0, 0, 0>>                    \* 0.0  (main.py:134)
D0_1 == <<6553, 629145, 629146>>       \* 0.1 = 0x1.999999999999ap-4 (main.py:138)
D0_2 == <<13107, 209715, 209716>>      \* 0.2 = 0x1.999999999999ap-3 (main.py:142)
D0_3 == <<19660, 838860, 838860>>      \* 0.3 = 0x1.3333333333333p-2 (main.py:138, 149)
D0_5 == <<32768, 0, 0>>                \* 0.5 = 0x1p-1 (main.py:147)
D0_7 == <<45875, 209715, 209712>>      \* 0.7 = 0x1.6666666666666p-1 (main.py:145)

(***************************************************************************)
(* Natural numbers of any size, for the significands of doubles: a         *)
(* sequence of limbs in 0 .. NatBase-1, least significant first, without   *)
(* leading zero limbs; <<>> is 0.                                          *)
(***************************************************************************)
NatLimbBits == 13
NatBase == 2 ^ NatLimbBits

\* drop the zero limbs at the most significant end
NatTrim(a) ==
    LET used == {k \in 1 .. Len(a) : a[k] # 0}
    IN  IF used = {} THEN <<>>
        ELSE SubSeq(a, 1, CHOOSE k \in used : \A j \in used : j <= k)

\* the sum of a sequence of natural numbers, as the size of the bag that
\* holds k as often as f[k] + 1
NatSum(f) == BagCardinality([k \in 1 .. Len(f) |-> f[k] + 1]) - Len(f)

\* the three base-NatBase digits of each column sum c[k] in 0 .. 2^31-1,
\* added into its own place and the next two: places of at most
\* 2 * NatBase + 30
NatDigits(c) ==
    [k \in 1 .. (Len(c) + 2) |->
        (IF k <= Len(c) THEN c[k] % NatBase ELSE 0)
        + (IF k - 1 \in 1 .. Len(c) THEN (c[k - 1] \div NatBase) % NatBase
           ELSE 0)
        + (IF k - 2 \in 1 .. Len(c) THEN c[k - 2] \div (NatBase * NatBase)
           ELSE 0)] \o <<0>>

\* the carries 0 .. 2 of the places w moved one place up: places of at most
\* NatBase + 1
NatCarryOnce(w) ==
    [k \in 1 .. Len(w) |->
        (w[k] % NatBase) + (IF k > 1 THEN w[k - 1] \div NatBase ELSE 0)]
    \o <<>>

\* the limbs of places u of at most NatBase + 1: a carry of 1 leaves every
\* place that holds NatBase or more and passes through the places that
\* hold NatBase - 1
NatRipple(u) ==
    NatTrim([k \in 1 .. Len(u) |->
                (u[k] + (IF \E j \in 1 .. (k - 1) :
                               /\ u[j] >= NatBase
                               /\ \A i \in (j + 1) .. (k - 1) :
                                      u[i] = NatBase - 1
                         THEN 1 ELSE 0)) % NatBase] \o <<>>)

\* the number whose limb k is the column sum cols[k], each in 0 .. 2^31-1
NatNorm(cols) == NatRipple(NatCarryOnce(NatDigits(cols \o <<>>)))

NatLimb(a, k) == IF k \in 1 .. Len(a) THEN a[k] ELSE 0

\* k in 0 .. 2^31-1 as a natural number
NatFromInt(k) ==
    NatTrim(<<k % NatBase, (k \div NatBase) % NatBase,
              k \div (NatBase * NatBase)>>)

NatAdd(a, b) ==
    IF a = <<>> THEN b
    ELSE IF b = <<>> THEN a
    ELSE NatNorm([k \in 1 .. (IF Len(a) > Len(b) THEN Len(a) ELSE Len(b))
                     |-> NatLimb(a, k) + NatLimb(b, k)])

\* a - b for a >= b: a plus the complement of b plus one, less the
\* NatBase^Len(a) that this adds
NatSub(a, b) ==
    IF b = <<>> THEN a
    ELSE NatTrim(SubSeq(
             NatNorm([k \in 1 .. Len(a) |->
                         a[k] + (NatBase - 1 - NatLimb(b, k))
                         + (IF k = 1 THEN 1 ELSE 0)]),
             1, Len(a)))

\* column k of the long multiplication of a by b
NatColumn(a, b, k) ==
    NatSum([i \in 1 .. Len(a) |-> a[i] * NatLimb(b, k + 1 - i)])

NatMul(a, b) ==
    IF a = <<>> \/ b = <<>> THEN <<>>
    ELSE NatNorm([k \in 1 .. (Len(a) + Len(b)) |-> NatColumn(a, b, k)])

\* a[k .. ] % n for n in 1 .. 64 and at most six limbs from k on: limb j
\* counts NatBase^(j - k) times
NatRemFrom(a, n, k) ==
    NatSum([j \in 1 .. (Len(a) + 1 - k) |->
               a[k + j - 1]
               * (IF j = 1 THEN 1 ELSE ((NatBase % n) ^ (j - 1)) % n)]) % n

\* <<a \div n, a % n>> for n in 1 .. 64 and a of at most six limbs: the
\* long division, limb k divided with the remainder of the limbs above it
\* in front
NatDivSmall(a, n) ==
    <<NatTrim([k \in 1 .. Len(a) |->
                  (NatRemFrom(a, n, k + 1) * NatBase + a[k]) \div n]),
      NatRemFrom(a, n, 1)>>

\* a * 2^(NatLimbBits * drop + r) for r in 0 .. NatLimbBits-1: each limb
\* gives its low bits to one place and its high bits to the next
NatShlBy(a, drop, r) ==
    NatTrim([k \in 1 .. (Len(a) + drop + 1) |->
                (NatLimb(a, k - drop) % (2 ^ (NatLimbBits - r))) * (2 ^ r)
                + (NatLimb(a, k - drop - 1) \div (2 ^ (NatLimbBits - r)))])

\* a * 2^bits
NatShl(a, bits) == NatShlBy(a, bits \div NatLimbBits, bits % NatLimbBits)

\* a \div 2^(NatLimbBits * drop + r) for r in 0 .. NatLimbBits-1
NatShrBy(a, drop, r) ==
    NatTrim([k \in 1 .. (Len(a) - drop) |->
                (a[k + drop] \div (2 ^ r))
                + (NatLimb(a, k + drop + 1) % (2 ^ r))
                  * (2 ^ (NatLimbBits - r))])

\* a \div 2^bits
NatShr(a, bits) == NatShrBy(a, bits \div NatLimbBits, bits % NatLimbBits)

\* a % 2^bits = 0
NatLowZero(a, bits) ==
    \A k \in 1 .. Len(a) :
        /\ k <= bits \div NatLimbBits => a[k] = 0
        /\ k = (bits \div NatLimbBits) + 1
               => a[k] % (2 ^ (bits % NatLimbBits)) = 0

\* number of bits of a
NatBits(a) ==
    IF a = <<>> THEN 0
    ELSE NatLimbBits * (Len(a) - 1)
         + (CHOOSE b \in 1 .. NatLimbBits :
                2 ^ (b - 1) <= a[Len(a)] /\ a[Len(a)] < 2 ^ b)

\* a < b
NatLess(a, b) ==
    IF Len(a) # Len(b) THEN Len(a) < Len(b)
    ELSE \E k \in 1 .. Len(a) :
             a[k] < b[k] /\ \A j \in (k + 1) .. Len(a) : a[j] = b[j]

\* t if its square stays within a, else r
NatIsqrtTry(a, r, t) == IF NatLess(a, NatMul(t, t)) THEN r ELSE t

\* r with the bits number high down to number low added wherever the
\* square stays within a; the upper half of the bits is settled before the
\* lower half is entered
RECURSIVE NatIsqrtBits(_, _, _, _)
NatIsqrtBits(a, r, high, low) ==
    IF high = low
    THEN NatIsqrtTry(a, r, NatAdd(r, NatShl(<<1>>, low)))
    ELSE LET upper == NatIsqrtBits(a, r, high, (high + low + 1) \div 2)
         IN  IF upper = <<>>
             THEN NatIsqrtBits(a, <<>>, ((high + low + 1) \div 2) - 1, low)
             ELSE NatIsqrtBits(a, upper, ((high + low + 1) \div 2) - 1, low)

\* the largest r with r * r <= a; r has half as many bits as a
NatIsqrt(a) ==
    IF a = <<>> THEN <<>> ELSE NatIsqrtBits(a, <<>>, NatBits(a) \div 2, 0)

(***************************************************************************)
(* IEEE-754 doubles of the gap statistics (main.py:126-130).  A finite     *)
(* double is [s, m, e] and stands for s * m * 2^e, with s in {1, -1} and m *)
(* a natural number of exactly 53 bits, or m = 0 (and s = 1, e = 0) for    *)
(* zero.  The values met here are far from overflow and underflow, so      *)
(* infinities, NaN and subnormals are left out.                            *)
(***************************************************************************)
F64Zero == [s |-> 1, m |-> <<>>, e |-> 0]

\* s * m * 2^e for m of 53 bits, or of 54 bits after a rounding that
\* carried into a new leading bit (m is then 2^53)
F64Pack(s, m, e) ==
    IF NatBits(m) = 54 THEN [s |-> s, m |-> NatShr(m, 1), e |-> e + 1]
    ELSE [s |-> s, m |-> m, e |-> e]

\* s * n * 2^e for n of 54 bits, with sticky telling that bits were cut
\* off below n: the last bit of n is rounded away, to nearest, ties to even
F64Cut(s, n, sticky, e) ==
    F64Pack(s,
            NatAdd(NatShr(n, 1),
                   IF n[1] % 2 = 1 /\ (sticky \/ n[1] % 4 = 3)
                   THEN <<1>> ELSE <<>>),
            e + 1)

\* F64Round for n # 0 of the given number of bits
F64RoundBits(s, n, e, bits) ==
    IF bits <= 53
    THEN [s |-> s, m |-> NatShl(n, 53 - bits), e |-> e - (53 - bits)]
    ELSE F64Cut(s, NatShr(n, bits - 54), ~NatLowZero(n, bits - 54),
                e + (bits - 54))

\* s * n * 2^e rounded to the nearest double, ties to even
F64Round(s, n, e) ==
    IF n = <<>> THEN F64Zero ELSE F64RoundBits(s, n, e, NatBits(n))

\* float(k) for an int k
F64FromInt(k) ==
    F64Round(IF k < 0 THEN -1 ELSE 1, NatFromInt(IF k < 0 THEN -k ELSE k), 0)

F64Neg(x) == IF x.m = <<>> THEN x ELSE [x EXCEPT !.s = -x.s]

F64Abs(x) == [x EXCEPT !.s = 1]

\* xs * xm * 2^e + ys * ym * 2^e for xm, ym # 0
F64AddAligned(xs, xm, ys, ym, e) ==
    F64Round(IF xs = ys \/ ~NatLess(xm, ym) THEN xs ELSE ys,
             IF xs = ys THEN NatAdd(xm, ym)
             ELSE IF NatLess(xm, ym) THEN NatSub(ym, xm)
             ELSE NatSub(xm, ym),
             e)

\* x + y for x, y # 0, with e the smaller of their exponents
F64AddAt(x, y, e) ==
    F64AddAligned(x.s, NatShl(x.m, x.e - e), y.s, NatShl(y.m, y.e - e), e)

\* x + y
F64Add(x, y) ==
    IF x.m = <<>> THEN y
    ELSE IF y.m = <<>> THEN x
    ELSE F64AddAt(x, y, IF x.e < y.e THEN x.e ELSE y.e)

\* x - y
F64Sub(x, y) == F64Add(x, F64Neg(y))

\* x * y
F64Mul(x, y) ==
    IF x.m = <<>> \/ y.m = <<>> THEN F64Zero
    ELSE F64Round(x.s * y.s, NatMul(x.m, y.m), x.e + y.e)

\* s * 2^e times the quotient qr[1], with a bit below it that records the
\* remainder qr[2], so that the rounding sees on which side of a tie the
\* exact quotient lies
F64Quotient(s, qr, e) ==
    F64Round(s, NatAdd(NatShl(qr[1], 1), IF qr[2] = 0 THEN <<>> ELSE <<1>>),
             e - 1)

\* x / n for an int n in 1 .. 64: the quotient of m * 2^16 by n has 63 bits
\* or more
F64DivInt(x, n) ==
    IF x.m = <<>> THEN F64Zero
    ELSE F64Quotient(x.s, NatDivSmall(NatShl(x.m, 16), n), x.e - 16)

\* 2^e times the integer root of n, with a bit below it that records a
\* remainder
F64Root(n, root, e) ==
    F64Round(1,
             NatAdd(NatShl(root, 1),
                    IF NatMul(root, root) = n THEN <<>> ELSE <<1>>),
             e - 1)

\* sqrt(n * 2^(2 * e))
F64SqrtOf(n, e) == F64Root(n, NatIsqrt(n), e)

\* sqrt(x) for x >= 0: the integer root of m * 2^k, k = 58 or 59 making the
\* exponent even, has 56 bits
F64Sqrt(x) ==
    IF x.m = <<>> THEN F64Zero
    ELSE IF (x.e - 58) % 2 = 0 THEN F64SqrtOf(NatShl(x.m, 58), (x.e - 58) \div 2)
    ELSE F64SqrtOf(NatShl(x.m, 59), (x.e - 59) \div 2)

\* x < y
F64Less(x, y) ==
    IF x.s # y.s THEN x.s < y.s
    ELSE IF x.m = <<>> \/ y.m = <<>> THEN x.m = <<>> /\ y.m # <<>>
    ELSE IF x.e = y.e /\ x.m = y.m THEN FALSE
    ELSE IF x.s = 1
    THEN IF x.e # y.e THEN x.e < y.e ELSE NatLess(x.m, y.m)
    ELSE ~(IF x.e # y.e THEN x.e < y.e ELSE NatLess(x.m, y.m))

(***************************************************************************)
(* Cloud analysis (main.py:92-177)                                         *)
(***************************************************************************)
\* Mutant of InWindow: the window test written with >=
InWindowInclusive(b, device_id, cutoff_time) ==
    b.device_id = device_id /\ b.received_at >= cutoff_time

\* Mutant of InWindow: the device test left out
InWindowAnyDevice(b, device_id, cutoff_time) == b.received_at > cutoff_time

\* The filter of main.py:103
InWindow(b, device_id, cutoff_time) ==
    b.device_id = device_id /\ b.received_at > cutoff_time

\* main.py:101-104
DeviceBatchesSince(store, device_id, cutoff_time) ==
    SelectSeq(store, LAMBDA b : InWindow(b, device_id, cutoff_time))

\* main.py:118-121: batch_intervals[i] of the code is BatchIntervals(db)[i + 1]
BatchIntervals(db) ==
    [i \in 1 .. (Len(db) - 1) |-> db[i + 1].batch_start - db[i].batch_end]

\* Mutant of Outlier: the test written with >=
OutlierInclusive(n, S, Q, x) == n * (n * x - S) * (n * x - S) >= 9 * Q

\* Mutant of Outlier: a threshold of 2 standard deviations
OutlierTwoSigma(n, S, Q, x) == n * (n * x - S) * (n * x - S) > 4 * Q

\* abs(interval - mean_interval) > (3 * std_interval) (main.py:130) for the
\* gap x among n gaps x_1..x_n with S = sum x_j and Q = sum (n*x_j - S)^2.
\* numpy gives mean = S/n and std = sqrt(sum((x_j - mean)^2) / n), the
\* population standard deviation, so the test is
\*     |n*x - S| / n > 3 * sqrt(Q / n^3),   that is   n * (n*x - S)^2 > 9 * Q.
\* The gaps of the model are whole hours of small magnitude; on them the
\* doubles the code computes decide the test as the exact numbers do (where
\* the two sides are equal, mean, deviations, variance and its root are all
\* integers in seconds, and the doubles are equal too).
Outlier(n, S, Q, x) == n * (n * x - S) * (n * x - S) > 9 * Q

\* main.py:124-130: the gaps flagged, as indices counted from 1, ascending
FlaggedGaps(gaps) ==
    IF gaps = <<>> THEN <<>>
    ELSE LET n == Len(gaps)
             S == SumSeq(gaps)
             Q == SumSeq([j \in 1 .. n |-> (n * gaps[j] - S) * (n * gaps[j] - S)])
         IN  SelectSeq([i \in 1 .. n |-> i], LAMBDA i : Outlier(n, S, Q, gaps[i]))

\* Mutant of Indicator: the gap counted from 1
IndicatorOneBased(i) == "Unusual gap in telemetry at batch " \o ToString(i + 1)

\* f"Unusual gap in telemetry at batch {i}" (main.py:131), i counted from 0
Indicator(i) == "Unusual gap in telemetry at batch " \o ToString(i)

\* main.py:129-131: one indicator per flagged gap, in gap order
Anomalies(gaps) ==
    LET f == FlaggedGaps(gaps) IN [k \in 1 .. Len(f) |-> Indicator(f[k] - 1)]

\* Mutant of Statistics: the guard `if batch_intervals:` left out
StatisticsUnguarded(gaps) ==
    <<[mean_num |-> SumSeq(gaps), mean_den |-> Len(gaps)]>>

\* mean_interval and std_interval (main.py:126-127): set only when
\* batch_intervals is non-empty; kept as the exact numbers they round
Statistics(gaps) ==
    IF gaps = <<>> THEN <<>>
    ELSE LET n == Len(gaps)
             S == SumSeq(gaps)
         IN  <<[mean_num |-> S, mean_den |-> n]>>

\* Mutant of AnomalyContribution: the cap of 0.3 left out
AnomalyContributionUncapped(anomalies) == DblMulInt(Len(anomalies), D0_1)

\* min(0.3, len(anomalies) * 0.1) (main.py:138)
AnomalyContribution(anomalies) ==
    DblMin(D0_3, DblMulInt(Len(anomalies), D0_1))

\* Mutant of DensityShortfall: the test written with <=
DensityShortfallInclusive(batch_count, time_range_hours) ==
    batch_count <= time_range_hours * 6

\* batch_count < (req.time_range_hours * 6) (main.py:141)
DensityShortfall(batch_count, time_range_hours) ==
    batch_count < time_range_hours * 6

\* Mutant of ThreatScore: the density term assigned (=) instead of added (+=)
ThreatScoreDensityAssigned(anomalies, batch_count, time_range_hours) ==
    IF DensityShortfall(batch_count, time_range_hours) THEN D0_2
    ELSE IF anomalies # <<>>
         THEN DblAdd(D0_0, AnomalyContribution(anomalies)) ELSE D0_0

\* main.py:134-142: threat_score = 0.0, then += the anomaly contribution
\* if there are anomalies, then += 0.2 on a density shortfall
ThreatScore(anomalies, batch_count, time_range_hours) ==
    LET s1 == IF anomalies # <<>>
              THEN DblAdd(D0_0, AnomalyContribution(anomalies)) ELSE D0_0
    IN  IF DensityShortfall(batch_count, time_range_hours)
        THEN DblAdd(s1, D0_2) ELSE s1

\* Mutant of Level: the comparisons written with >=
LevelInclusive(threat_score) ==
    IF ~DblLess(threat_score, D0_7) THEN "CRITICAL"
    ELSE IF ~DblLess(threat_score, D0_5) THEN "HIGH"
    ELSE IF ~DblLess(threat_score, D0_3) THEN "MODERATE"
    ELSE "LOW"

\* main.py:145-152
Level(threat_score) ==
    IF DblLess(D0_7, threat_score) THEN "CRITICAL"
    ELSE IF DblLess(D0_5, threat_score) THEN "HIGH"
    ELSE IF DblLess(D0_3, threat_score) THEN "MODERATE"
    ELSE "LOW"

\* Mutant of Recommendations: the fallback entry appended to every list
RecommendationsFallbackAlways(anomalies, batch_count, level) ==
    (IF anomalies # <<>>
     THEN <<"Investigate telemetry gaps for possible interference">>
     ELSE <<>>)
    \o (IF batch_count < 10
        THEN <<"Continue baseline collection for improved accuracy">>
        ELSE <<>>)
    \o (IF level \in {"HIGH", "CRITICAL"}
        THEN <<"Enable enhanced monitoring mode",
               "Review device for surveillance indicators">>
        ELSE <<>>)
    \o <<"Continue normal operation">>

\* main.py:155-162 and 175
Recommendations(anomalies, batch_count, level) ==
    LET r == (IF anomalies # <<>>
              THEN <<"Investigate telemetry gaps for possible interference">>
              ELSE <<>>)
             \o (IF batch_count < 10
                 THEN <<"Continue baseline collection for improved accuracy">>
                 ELSE <<>>)
             \o (IF level \in {"HIGH", "CRITICAL"}
                 THEN <<"Enable enhanced monitoring mode",
                        "Review device for surveillance indicators">>
                 ELSE <<>>)
    IN  IF r # <<>> THEN r ELSE <<"Continue normal operation">>

\* min(0.95, total_samples / 10000) (main.py:168).  The double 0.95 is the
\* quotient 9500/10000 rounded, so the minimum is 0.95 from 9500 samples
\* on; below, it is the double nearest to total_samples / 10000, kept as
\* that fraction.
Confidence(total_samples) ==
    IF total_samples >= 9500 THEN [num |-> 95, den |-> 100]
    ELSE [num |-> total_samples, den |-> 10000]

\* The value request_analysis returns for req (main.py:99-177)
AnalysisResult(store, t, req) ==
    LET cutoff_time    == t - req.time_range_hours
        device_batches == DeviceBatchesSince(store, req.device_id, cutoff_time)
    IN  IF device_batches = <<>>
        THEN [kind |-> "analysis", req |-> req, status |-> "insufficient_data",
              message |-> "No telemetry in last "
                          \o ToString(req.time_range_hours) \o " hours",
              recommendation |-> "Continue baseline collection",
              \* local of the handler, not part of the reply
              device_batches |-> device_batches]
        ELSE LET total_samples ==
                     SumSeq([i \in 1 .. Len(device_batches)
                                |-> device_batches[i].sample_count])
                 batch_count     == Len(device_batches)
                 batch_intervals == BatchIntervals(device_batches)
                 anomalies       == Anomalies(batch_intervals)
                 threat_score    == ThreatScore(anomalies, batch_count,
                                                req.time_range_hours)
                 level           == Level(threat_score)
             IN  [kind |-> "analysis", req |-> req, status |-> "complete",
                  threat_level |-> level, threat_score |-> threat_score,
                  confidence |-> Confidence(total_samples),
                  analysis_period |->
                      [hours |-> req.time_range_hours,
                       batches_analyzed |-> batch_count,
                       total_samples |-> total_samples],
                  indicators |-> anomalies,
                  recommendations |->
                      Recommendations(anomalies, batch_count, level),
                  timestamp |-> t,
                  \* locals of the handler, not part of the reply
                  device_batches |-> device_batches,
                  batch_intervals |-> batch_intervals,
                  statistics |-> Statistics(batch_intervals)]

request_analysis(req) ==
    /\ response' = AnalysisResult(TELEMETRY_STORE, now, req)
    /\ UNCHANGED <<TELEMETRY_STORE, THREAT_DATABASE, now, ingested, reported>>

(***************************************************************************)
(* numpy on the list of gaps (main.py:126-127)                             *)
(***************************************************************************)
\* a[i] + ... + a[to] added to acc from left to right
RECURSIVE F64SumFrom(_, _, _, _)
F64SumFrom(a, i, to, acc) ==
    IF i > to THEN acc
    ELSE IF acc.m = <<>> THEN F64SumFrom(a, i + 1, to, a[i])
    ELSE F64SumFrom(a, i + 1, to, F64Add(acc, a[i]))

\* the eight running sums r[1..8] of numpy's unrolled loop, after the
\* blocks of eight that start at a[i], a[i + 8], ... up to index to
RECURSIVE NpBlocks(_, _, _, _)
NpBlocks(a, i, to, r) ==
    IF i + 7 > to THEN r
    ELSE NpBlocks(a, i + 8, to, [j \in 1 .. 8 |-> F64Add(r[j], a[i + j - 1])])

\* r[lo .. hi] added by halves:
\* ((r1 + r2) + (r3 + r4)) + ((r5 + r6) + (r7 + r8)) for 1 .. 8
RECURSIVE NpHalves(_, _, _)
NpHalves(r, lo, hi) ==
    IF lo = hi THEN r[lo]
    ELSE F64Add(NpHalves(r, lo, (lo + hi) \div 2),
                NpHalves(r, ((lo + hi) \div 2) + 1, hi))

\* np.add.reduce over a list of fewer than 128 doubles (pairwise_sum in
\* numpy's loops): fewer than 8 are added from left to right starting
\* from 0.0; otherwise eight running sums take the blocks of eight, are
\* added by halves, and the rest is added from left to right
NpSum(a) ==
    IF Len(a) < 8 THEN F64SumFrom(a, 1, Len(a), F64Zero)
    ELSE F64SumFrom(a, Len(a) - (Len(a) % 8) + 1, Len(a),
                    NpHalves(NpBlocks(a, 9, Len(a) - (Len(a) % 8),
                                      SubSeq(a, 1, 8)),
                             1, 8))

\* np.mean(a): the sum divided by the count
NpMean(a) == F64DivInt(NpSum(a), Len(a))

F64Square(x) == F64Mul(x, x)

\* sqrt of the mean of the squared deviations of a from arrmean
NpStdAbout(a, arrmean) ==
    F64Sqrt(F64DivInt(
        NpSum([i \in 1 .. Len(a) |-> F64Square(F64Sub(a[i], arrmean))]),
        Len(a)))

\* np.std(a): sqrt of the mean of the squared deviations from the mean
NpStd(a) == NpStdAbout(a, F64DivInt(NpSum(a), Len(a)))

\* abs(interval - mean_interval) > (3 * std_interval) (main.py:130)
OutlierF64(interval, mean_interval, std_interval) ==
    F64Less(F64Mul(F64FromInt(3), std_interval),
            F64Abs(F64Sub(interval, mean_interval)))

\* main.py:118-121 on timestamps in seconds: the gaps as the doubles
\* batch_start - batch_end
BatchIntervalsF64(db) ==
    [i \in 1 .. (Len(db) - 1) |->
        F64Sub(F64FromInt(db[i + 1].batch_start), F64FromInt(db[i].batch_end))]

\* main.py:129-130 in double arithmetic: the indices, from 1, of the gaps
\* for which the test of main.py:130 holds, in gap order
FlaggedGapsF64(gaps, mean_interval, std_interval) ==
    SelectSeq([i \in 1 .. Len(gaps) |-> i],
              LAMBDA i : OutlierF64(gaps[i], mean_interval, std_interval))

\* main.py:131: the indicators of the flagged gaps, numbered from 0
IndicatorsOf(flagged) == [k \in 1 .. Len(flagged) |-> Indicator(flagged[k] - 1)]

\* main.py:124-131 in double arithmetic
AnomaliesF64(gaps) ==
    IF gaps = <<>> THEN <<>>
    ELSE IndicatorsOf(FlaggedGapsF64(gaps \o <<>>, NpMean(gaps), NpStd(gaps)))
         \o <<>>

\* main.py:145-177: the complete reply, from the locals of the handler
CompleteReplySeconds(req, t, device_batches, total_samples, anomalies, score) ==
    [kind |-> "analysis", req |-> req, status |-> "complete",
     threat_level |-> Level(score), threat_score |-> score,
     confidence |-> Confidence(total_samples),
     analysis_period |->
         [hours |-> req.time_range_hours,
          batches_analyzed |-> Len(device_batches),
          total_samples |-> total_samples],
     indicators |-> anomalies,
     recommendations |->
         Recommendations(anomalies, Len(device_batches), Level(score)),
     timestamp |-> t,
     \* locals of the handler, not part of the reply
     device_batches |-> device_batches,
     batch_intervals |-> BatchIntervals(device_batches)]

\* main.py:133-177: the score of the anomalies found, and the reply
ScoredReplySeconds(req, t, device_batches, anomalies) ==
    CompleteReplySeconds(
        req, t, device_batches,
        SumSeq([i \in 1 .. Len(device_batches)
                   |-> device_batches[i].sample_count]),
        anomalies,
        ThreatScore(anomalies, Len(device_batches), req.time_range_hours))

\* main.py:106-177 on the batches selected
WindowReplySeconds(req, t, device_batches) ==
    IF device_batches = <<>>
    THEN [kind |-> "analysis", req |-> req, status |-> "insufficient_data",
          message |-> "No telemetry in last "
                      \o ToString(req.time_range_hours) \o " hours",
          recommendation |-> "Continue baseline collection",
          device_batches |-> device_batches]
    ELSE ScoredReplySeconds(req, t, device_batches,
                            AnomaliesF64(BatchIntervalsF64(device_batches)))

\* The value request_analysis returns for req (main.py:99-177) when the
\* timestamps of the store and t are in seconds
AnalysisResultSeconds(store, t, req) ==
    WindowReplySeconds(
        req, t,
        DeviceBatchesSince(store, req.device_id,
                           t - (req.time_range_hours * 3600)))

request_analysis_seconds(req) ==
    /\ response' = AnalysisResultSeconds(TELEMETRY_STORE, now, req)
    /\ UNCHANGED <<TELEMETRY_STORE, THREAT_DATABASE, now, ingested, reported>>

(***************************************************************************)
(* Threat intelligence network (main.py:183-237)                           *)
(***************************************************************************)
\* len([b for b in store if b["received_at"] > since]) (main.py:196-197)
ReceivedSince(store, since) ==
    Len(SelectSeq(store, LAMBDA b : b.received_at > since))

\* Mutant of GlobalSnapshot: the devices counted over the last hour only
GlobalSnapshotRecentDevices(store, threats, t) ==
    [kind |-> "global", network_status |-> "operational",
     statistics |->
         [total_devices |->
              Cardinality({store[i].device_id :
                              i \in {j \in 1 .. Len(store) :
                                         store[j].received_at > t - 1}}),
          total_batches |-> Len(store),
          total_samples |->
              SumSeq([i \in 1 .. Len(store) |-> store[i].sample_count]),
          batches_last_hour |-> ReceivedSince(store, t - 1),
          batches_last_day |-> ReceivedSince(store, t - 24)],
     global_threat_level |-> "LOW",
     known_threats |-> threats,
     timestamp |-> t]

\* The value get_global_threats returns (main.py:191-211)
GlobalSnapshot(store, threats, t) ==
    [kind |-> "global", network_status |-> "operational",
     statistics |->
         [total_devices |->
              Cardinality({store[i].device_id : i \in 1 .. Len(store)}),
          total_batches |-> Len(store),
          total_samples |->
              SumSeq([i \in 1 .. Len(store) |-> store[i].sample_count]),
          batches_last_hour |-> ReceivedSince(store, t - 1),
          batches_last_day |-> ReceivedSince(store, t - 24)],
     global_threat_level |-> "LOW",
     known_threats |-> threats,
     timestamp |-> t]

get_global_threats ==
    /\ response' = GlobalSnapshot(TELEMETRY_STORE, THREAT_DATABASE, now)
    /\ UNCHANGED <<TELEMETRY_STORE, THREAT_DATABASE, now, ingested, reported>>

\* The dict appended at main.py:220-227
StoredThreat(threat, t) ==
    [threat_level |-> threat.threat_level, confidence |-> threat.confidence,
     indicators |-> threat.indicators,
     recommendations |-> threat.recommendations,
     reported_at |-> t, timestamp |-> threat.timestamp]

report_threat(threat) ==
    /\ Len(ingested) + Len(reported) < MaxInserts
    /\ LET stored == ThreatsTruncated(
                         Append(THREAT_DATABASE, StoredThreat(threat, now)))
       IN /\ THREAT_DATABASE' = stored
          /\ response' = [kind |-> "report", status |-> "accepted",
                          threat_id |-> Len(stored),
                          distributed_to_network |-> TRUE]
    /\ reported' = Append(reported, StoredThreat(threat, now))
    /\ UNCHANGED <<TELEMETRY_STORE, now, ingested>>

(***************************************************************************)
(* Health and status (main.py:243-268)                                     *)
(***************************************************************************)
root ==
    /\ response' = [kind |-> "root", service |-> "SACS Cloud Analysis",
                    version |-> "6.0", status |-> "operational",
                    uptime |-> "99.9%", free_tier |-> TRUE]
    /\ UNCHANGED <<TELEMETRY_STORE, THREAT_DATABASE, now, ingested, reported>>

health ==
    /\ response' = [kind |-> "health", status |-> "healthy",
                    telemetry_batches_stored |-> Len(TELEMETRY_STORE),
                    threats_tracked |-> Len(THREAT_DATABASE),
                    timestamp |-> now]
    /\ UNCHANGED <<TELEMETRY_STORE, THREAT_DATABASE, now, ingested, reported>>

(***************************************************************************)
(* Forensic reports (main.py:274-323)                                      *)
(***************************************************************************)
\* main.py:282-285
DeviceBatches(store, device_id) ==
    SelectSeq(store, LAMBDA b : b.device_id = device_id)

\* min(...) and max(...) of a non-empty list (main.py:291-292)
MinOf(s) == CHOOSE x \in {s[i] : i \in 1 .. Len(s)} :
                \A j \in 1 .. Len(s) : x <= s[j]
MaxOf(s) == CHOOSE x \in {s[i] : i \in 1 .. Len(s)} :
                \A j \in 1 .. Len(s) : x >= s[j]

\* datetime.fromtimestamp(t) (main.py:301-302) raises ValueError ("year ...
\* is out of range") unless t falls in the years 1..9999: in hours,
\* -62135596800 / 3600 = -17259888 and 253402300799 / 3600 = 70389527 (the
\* two ends move with the UTC offset of the host, by less than a day).
DatetimeMinHours == -17259888
DatetimeMaxHours == 70389527
FromTimestampOk(t) == DatetimeMinHours < t /\ t <= DatetimeMaxHours

\* main.py:293
TotalDuration(first_batch, last_batch) == last_batch - first_batch

\* What generate_forensic_report returns or raises for req (main.py:281-323),
\* with the list the handler selected
ForensicResult(store, req) ==
    LET device_batches == DeviceBatches(store, req.device_id)
    IN  IF device_batches = <<>>
        THEN [kind |-> "forensic", req |-> req, raised |-> "HTTPException",
              status_code |-> 404, detail |-> "No telemetry found for device",
              \* local of the handler, not part of the reply
              device_batches |-> device_batches]
        ELSE LET first_batch == MinOf([i \in 1 .. Len(device_batches)
                                          |-> device_batches[i].batch_start])
                 last_batch  == MaxOf([i \in 1 .. Len(device_batches)
                                          |-> device_batches[i].batch_end])
                 total_duration == TotalDuration(first_batch, last_batch)
             IN  IF ~FromTimestampOk(first_batch) \/ ~FromTimestampOk(last_batch)
                 \* uncaught in the handler: the server answers 500
                 THEN [kind |-> "forensic", req |-> req, raised |-> "ValueError",
                       status_code |-> 500, device_batches |-> device_batches]
                 ELSE [kind |-> "forensic", req |-> req, raised |-> "nothing",
                       status_code |-> 200,
                       report_type |-> "SACS_FORENSIC_ANALYSIS",
                       device_id |-> req.device_id,
                       analysis_period |->
                           [start |-> first_batch, end |-> last_batch,
                            duration_hours |-> total_duration],
                       data_integrity |->
                           [total_batches |-> Len(device_batches),
                            total_samples |->
                                SumSeq([i \in 1 .. Len(device_batches)
                                           |-> device_batches[i].sample_count]),
                            encryption |-> "Fernet (AES-128)",
                            chain_of_custody |-> "Preserved"],
                       findings |->
                           [surveillance_indicators |-> <<>>,
                            interference_events |-> <<>>,
                            anomalous_patterns |-> <<>>],
                       device_batches |-> device_batches]

generate_forensic_report(req) ==
    /\ response' = ForensicResult(TELEMETRY_STORE, req)
    /\ UNCHANGED <<TELEMETRY_STORE, THREAT_DATABASE, now, ingested, reported>>

(***************************************************************************)
(* The clock: time.time() moves forward between requests.  The response of *)
(* the last handler has been sent by then.                                 *)
(***************************************************************************)
Tick ==
    /\ now < MaxHours
    /\ now' = now + 1
    /\ response' = NoResponse
    /\ UNCHANGED <<TELEMETRY_STORE, THREAT_DATABASE, ingested, reported>>

Init ==
    /\ TELEMETRY_STORE = <<>>
    /\ THREAT_DATABASE = <<>>
    /\ now = 0
    /\ response = NoResponse
    /\ ingested = <<>>
    /\ reported = <<>>

\* AnalysisRequest (main.py:43-46)
AnalysisRequests == [device_id : Devices, time_range_hours : {0, 1, 2}]

\* The forensic handler reads device_id alone; time_range_hours is its default
ForensicRequests == [device_id : Devices, time_range_hours : {24}]

Next ==
    \/ \E batch \in TelemetryBatches : upload_telemetry(batch)
    \/ \E req \in AnalysisRequests : request_analysis(req)
    \/ get_global_threats
    \/ \E threat \in ThreatReports : report_threat(threat)
    \/ root
    \/ health
    \/ \E req \in ForensicRequests : generate_forensic_report(req)
    \/ Tick

Spec == Init /\ [][Next]_vars

(***************************************************************************)
(* The analysis on longer histories.  The outlier test cannot flag a gap   *)
(* in a short history, so the read-only handlers are also run on stores of *)
(* up to MaxBatches batches, still far below the capacity of 10000 of the  *)
(* code: no insert happens here and the capacities play no part.           *)
(* Every batch of d1 ends at hour 0, so the gap before a batch is its      *)
(* batch_start: 1 hour for a regular batch, 50 hours for a late one, -48   *)
(* hours for an early one.  The batches 2..4 of d1 are regular, late or    *)
(* early; all others are regular.  A batch of d2 may sit among them.       *)
(***************************************************************************)
MaxBatches == 32

GapShapes == {1, 50, -48}

ProbeBatch(batch_start) ==
    [device_id |-> "d1", encrypted_data |-> "gAAAA", batch_start |-> batch_start,
     batch_end |-> 0, sample_count |-> 400, received_at |-> 0]

ForeignBatch ==
    [device_id |-> "d2", encrypted_data |-> "gAAAA", batch_start |-> 7,
     batch_end |-> 3, sample_count |-> 5, received_at |-> 0]

\* n batches of d1, the i-th with batch_start pattern[i-1] for i in 2..4,
\* and, if foreign, one batch of d2 after the first of them
ProbeStore(n, pattern, foreign) ==
    LET mine == [i \in 1 .. n |->
                    ProbeBatch(IF i \in 2 .. 4 THEN pattern[i - 1] ELSE 1)]
    IN  IF foreign /\ n >= 1
        THEN <<mine[1], ForeignBatch>> \o SubSeq(mine, 2, n)
        ELSE mine

InitAnalysis ==
    /\ \E n \in 0 .. MaxBatches, foreign \in BOOLEAN,
          pattern \in [1 .. 3 -> GapShapes] :
           TELEMETRY_STORE = ProbeStore(n, pattern, foreign)
    /\ THREAT_DATABASE = <<>>
    /\ now = 0
    /\ response = NoResponse
    /\ ingested = TELEMETRY_STORE
    /\ reported = <<>>

ProbeRequests == [device_id : Devices, time_range_hours : {0, 1, 5, 24}]

NextAnalysis ==
    \/ \E req \in ProbeRequests : request_analysis(req)
    \/ \E req \in ForensicRequests : generate_forensic_report(req)
    \/ get_global_threats
    \/ health
    \/ root

SpecAnalysis == InitAnalysis /\ [][NextAnalysis]_vars

(***************************************************************************)
(* The analysis on timestamps in seconds.  Every batch of d1 ends at       *)
(* second 0, so the gap before a batch is its batch_start: 1 second for a  *)
(* regular batch, 50 or 60 seconds for the one odd batch of the store.     *)
(* The mean of such gaps is not a double, and the test of main.py:130 is   *)
(* decided by the rounded values the code computes.                        *)
(***************************************************************************)
MaxTimedBatches == 11

OddGaps == {50, 60}

TimedBatch(batch_start) ==
    [device_id |-> "d1", encrypted_data |-> "gAAAA", batch_start |-> batch_start,
     batch_end |-> 0, sample_count |-> 400, received_at |-> 0]

\* n batches of d1, the one at position odd_at with batch_start odd
TimedStore(n, odd, odd_at) ==
    [i \in 1 .. n |-> TimedBatch(IF i = odd_at THEN odd ELSE 1)]

InitSeconds ==
    /\ \E n \in 0 .. MaxTimedBatches, odd \in OddGaps,
          odd_at \in 1 .. MaxTimedBatches :
           /\ odd_at <= n \/ odd_at = 1
           /\ TELEMETRY_STORE = TimedStore(n, odd, odd_at)
    /\ THREAT_DATABASE = <<>>
    /\ now = 0
    /\ response = NoResponse
    /\ ingested = TELEMETRY_STORE
    /\ reported = <<>>

TimedRequests == [device_id : {"d1"}, time_range_hours : {24}]

NextSeconds == \E req \in TimedRequests : request_analysis_seconds(req)

SpecSeconds == InitSeconds /\ [][NextSeconds]_vars

(***************************************************************************)
(* Properties of the bounded stores                                        *)
(***************************************************************************)
\* C1: after any sequence of uploads the telemetry store holds at most
\* TELEMETRY_CAP batches (10000 in the code) and is exactly the most recent
\* min(n, cap) of the n batches ever inserted, in insertion order.
C1_TelemetryStoreIsRecentSuffix ==
    LET n == Len(ingested)
        k == Len(TELEMETRY_STORE)
    IN  /\ k <= TELEMETRY_CAP
        /\ k = (IF n < TELEMETRY_CAP THEN n ELSE TELEMETRY_CAP)
        /\ \A i \in 1 .. k : TELEMETRY_STORE[i] = ingested[n - k + i]

\* An upload has just evicted: more batches were inserted than the store
\* holds, and the oldest one, different from every survivor, is gone.
C1_Witness ==
    /\ response.kind = "upload"
    /\ Len(ingested) > TELEMETRY_CAP
    /\ Len(TELEMETRY_STORE) = TELEMETRY_CAP
    /\ \A i \in 1 .. Len(TELEMETRY_STORE) : TELEMETRY_STORE[i] # ingested[1]

\* C2: after any sequence of threat reports the threat store holds at most
\* THREAT_CAP reports (1000 in the code) and is exactly the most recent
\* min(n, cap) of the n reports ever made, in report order.
C2_ThreatStoreIsRecentSuffix ==
    LET n == Len(reported)
        k == Len(THREAT_DATABASE)
    IN  /\ k <= THREAT_CAP
        /\ k = (IF n < THREAT_CAP THEN n ELSE THREAT_CAP)
        /\ \A i \in 1 .. k : THREAT_DATABASE[i] = reported[n - k + i]

\* A report has just evicted the oldest report, which differs from the survivors.
C2_Witness ==
    /\ response.kind = "report"
    /\ Len(reported) > THREAT_CAP
    /\ Len(THREAT_DATABASE) = THREAT_CAP
    /\ \A i \in 1 .. Len(THREAT_DATABASE) : THREAT_DATABASE[i] # reported[1]

\* C3: under any interleaving of the handlers, no handler observes a store
\* longer than its cap (the sizes every handler reports are within the
\* caps), and no insert is lost other than by eviction: after k inserts
\* into a store of length n its length is min(n + k, cap), so in every
\* state each store's length is the minimum of its cap and the number of
\* inserts made so far.
C3_AtomicInsert ==
    /\ Len(TELEMETRY_STORE) = (IF Len(ingested) < TELEMETRY_CAP
                               THEN Len(ingested) ELSE TELEMETRY_CAP)
    /\ Len(THREAT_DATABASE) = (IF Len(reported) < THREAT_CAP
                               THEN Len(reported) ELSE THREAT_CAP)
    /\ response.kind = "upload" => response.batches_stored <= TELEMETRY_CAP
    /\ response.kind = "report" => response.threat_id <= THREAT_CAP
    /\ response.kind = "health" =>
           /\ response.telemetry_batches_stored <= TELEMETRY_CAP
           /\ response.threats_tracked <= THREAT_CAP
    /\ response.kind = "global" =>
           /\ response.statistics.total_batches <= TELEMETRY_CAP
           /\ Len(response.known_threats) <= THREAT_CAP
    /\ (response.kind = "analysis" /\ response.status = "complete") =>
           response.analysis_period.batches_analyzed <= TELEMETRY_CAP
    /\ (response.kind = "forensic" /\ response.status_code = 200) =>
           response.data_integrity.total_batches <= TELEMETRY_CAP

\* A health check runs after an upload evicted: it reads the full store
\* between two inserts.
C3_Witness ==
    /\ response.kind = "health"
    /\ Len(ingested) > TELEMETRY_CAP
    /\ response.telemetry_batches_stored = TELEMETRY_CAP

(***************************************************************************)
(* Properties of the replies                                               *)
(***************************************************************************)
\* the store holds a batch of the requested device inside the window
SomeBatchInWindow(req) ==
    \E i \in 1 .. Len(TELEMETRY_STORE) :
        /\ TELEMETRY_STORE[i].device_id = req.device_id
        /\ TELEMETRY_STORE[i].received_at > now - req.time_range_hours

BatchesOf(device_id) ==
    {i \in 1 .. Len(TELEMETRY_STORE) : TELEMETRY_STORE[i].device_id = device_id}

\* C5: a forensic report fails with NotFound (404) exactly when the store
\* holds no batch of the device; with at least one batch it succeeds, with
\* duration_hours = (max batch_end - min batch_start) / 3600 over the
\* device's batches, negative or not, and total_batches and total_samples
\* their count and sample sum.
C5_ForensicNotFoundIffNoBatch ==
    response.kind = "forensic" =>
        LET mine == BatchesOf(response.req.device_id)
        IN  /\ (response.status_code = 404) <=> (mine = {})
            /\ mine # {} =>
                   /\ response.status_code = 200
                   /\ \E a \in mine, z \in mine :
                          /\ \A i \in mine :
                                 /\ TELEMETRY_STORE[a].batch_start
                                        <= TELEMETRY_STORE[i].batch_start
                                 /\ TELEMETRY_STORE[z].batch_end
                                        >= TELEMETRY_STORE[i].batch_end
                          /\ response.analysis_period.duration_hours =
                                 TELEMETRY_STORE[z].batch_end
                                     - TELEMETRY_STORE[a].batch_start
                   /\ response.data_integrity.total_batches = Cardinality(mine)
                   /\ response.data_integrity.total_samples =
                          SumSeq([i \in 1 .. Len(TELEMETRY_STORE) |->
                                     IF i \in mine
                                     THEN TELEMETRY_STORE[i].sample_count ELSE 0])

\* C6: when the analysed window holds exactly one batch of the device, the
\* indicator list is empty, there is no gap, and neither the mean nor the
\* standard deviation is computed.
C6_SingleBatchNoStatistics ==
    (/\ response.kind = "analysis"
     /\ response.status = "complete"
     /\ response.analysis_period.batches_analyzed = 1) =>
        /\ response.indicators = <<>>
        /\ response.batch_intervals = <<>>
        /\ response.statistics = <<>>

\* An analysis over exactly one in-window batch, while the store holds a
\* second batch of the same device outside the window.
C6_Witness ==
    /\ response.kind = "analysis"
    /\ response.status = "complete"
    /\ response.analysis_period.batches_analyzed = 1
    /\ Cardinality(BatchesOf(response.req.device_id)) = 2

(***************************************************************************)
(* Properties of the outlier test and of the score                         *)
(***************************************************************************)
\* an analysis ran to completion
Completed == response.kind = "analysis" /\ response.status = "complete"

OneGapFiftyfold(gaps) ==
    \E k \in DOMAIN gaps :
        \E g \in {gaps[i] : i \in DOMAIN gaps \ {k}} :
            /\ g # 0
            /\ gaps[k] = 50 * g
            /\ \A i \in DOMAIN gaps \ {k} : gaps[i] = g

\* the doubles 0.1 + 0.2 and 0.2 + 0.2
D0_30000000000000004 == <<19660, 838860, 838864>>  \* 0x1.3333333333334p-2
D0_4 == <<26214, 419430, 419432>>                  \* 0x1.999999999999ap-2

\* C8, for every history length: for a device whose analysed batches have
\* all gaps equal except one that is 50 times the others, and fewer
\* batches than 6 per hour of the window, the analysis flags exactly 1
\* anomaly, the score is 0.3 and the level is LOW.  (With 10 gaps or fewer
\* the 3-sigma test flags no gap, so this form fails already there.)
C8_OneOutlierScoresLow ==
    (/\ Completed
     /\ OneGapFiftyfold(response.batch_intervals)
     /\ response.analysis_period.batches_analyzed
            < 6 * response.analysis_period.hours) =>
        /\ Len(response.indicators) = 1
        /\ response.threat_score = D0_3
        /\ response.threat_level = "LOW"

\* C8, for the histories long enough for the 3-sigma test to flag the
\* fiftyfold gap: with all other gaps equal, exactly 1 anomaly flagged and
\* fewer batches than 6 per hour of the window, the score (anomaly term 0.1
\* plus density term 0.2) is 0.3 and the level is LOW, not MODERATE.
C8_FlaggedOutlierScoresLow ==
    (/\ Completed
     /\ OneGapFiftyfold(response.batch_intervals)
     /\ Len(response.indicators) = 1
     /\ response.analysis_period.batches_analyzed
            < 6 * response.analysis_period.hours) =>
        /\ response.threat_score = D0_3
        /\ response.threat_level = "LOW"

\* C9: the level is derived from the score by strict comparisons, >0.7
\* CRITICAL, >0.5 HIGH, >0.3 MODERATE, else LOW; a score of exactly 0.3 is
\* LOW and one of exactly 0.5 is MODERATE; every completed analysis returns
\* the level this mapping gives its returned threat_score.
C9_LevelFromScore ==
    Completed =>
        LET s == response.threat_score
            l == response.threat_level
        IN  /\ l = "CRITICAL" <=> DblLess(D0_7, s)
            /\ l = "HIGH" <=> (DblLess(D0_5, s) /\ ~DblLess(D0_7, s))
            /\ l = "MODERATE" <=> (DblLess(D0_3, s) /\ ~DblLess(D0_5, s))
            /\ l = "LOW" <=> ~DblLess(D0_3, s)
            /\ s = D0_3 => l = "LOW"
            /\ s = D0_5 => l = "MODERATE"

\* A completed analysis with a score of exactly 0.3 (three anomalies, no
\* density shortfall), answered LOW.
C9_Witness ==
    /\ Completed
    /\ response.threat_score = D0_3
    /\ response.threat_level = "LOW"
    /\ Len(response.indicators) >= 3

\* C10: every returned threat_score is min(0.3, 0.1 * anomalies), plus 0.2
\* when batch_count < 6 * time_range_hours, in double arithmetic; it lies
\* in [0.0, 0.5], so HIGH and CRITICAL are never returned and neither
\* "Enable enhanced monitoring mode" nor "Review device for surveillance
\* indicators" is ever recommended.
C10_ScoreAtMostHalf ==
    Completed =>
        LET k     == Len(response.indicators)
            short == response.analysis_period.batches_analyzed
                         < 6 * response.analysis_period.hours
            want  == CASE k = 0 -> (IF short THEN D0_2 ELSE D0_0)
                       [] k = 1 -> (IF short THEN D0_30000000000000004 ELSE D0_1)
                       [] k = 2 -> (IF short THEN D0_4 ELSE D0_2)
                       [] OTHER -> (IF short THEN D0_5 ELSE D0_3)
        IN  /\ response.threat_score = want
            /\ ~DblLess(D0_5, response.threat_score)
            /\ response.threat_level \in {"LOW", "MODERATE"}
            /\ \A i \in DOMAIN response.recommendations :
                   response.recommendations[i] \notin
                       {"Enable enhanced monitoring mode",
                        "Review device for surveillance indicators"}

\* The largest score: three anomalies and a density shortfall give 0.5,
\* answered MODERATE.
C10_Witness ==
    /\ Completed
    /\ Len(response.indicators) >= 3
    /\ response.threat_score = D0_5
    /\ response.threat_level = "MODERATE"

(***************************************************************************)
(* Monotonicity of the score                                               *)
(***************************************************************************)
\* a list of j indicators
AnomalyList(j) == [i \in 1 .. j |-> Indicator(i - 1)]

\* C11: the threat score is non-decreasing in the number of anomalies (the
\* anomaly contribution is capped at 0.3, so 3 or more anomalies contribute
\* the same), and for a fixed number of anomalies it is never lower when
\* the density shortfall batch_count < 6 * time_range_hours holds than when
\* it does not.  Checked at every completed analysis, against the scores
\* the code gives the same batches with fewer or more anomalies (up to 3
\* more) and with the shortfall present (a window of batch_count hours) or
\* absent (a window of 0 hours).
C11_ScoreMonotone ==
    Completed =>
        LET k  == Len(response.indicators)
            bc == response.analysis_period.batches_analyzed
            h  == response.analysis_period.hours
            Score(j, hours) == ThreatScore(AnomalyList(j), bc, hours)
        IN  /\ response.threat_score = Score(k, h)
            /\ \A i, j \in 0 .. (k + 3) :
                   i <= j => /\ ~DblLess(Score(j, h), Score(i, h))
                             /\ ~DblLess(AnomalyContribution(AnomalyList(j)),
                                         AnomalyContribution(AnomalyList(i)))
            /\ \A j \in 3 .. (k + 3) :
                   /\ AnomalyContribution(AnomalyList(j)) = D0_3
                   /\ Score(j, h) = Score(3, h)
            /\ \A j \in 0 .. (k + 3) :
                   /\ DensityShortfall(bc, bc)
                   /\ ~DensityShortfall(bc, 0)
                   /\ ~DblLess(Score(j, bc), Score(j, 0))
                   /\ Score(j, h) \in {Score(j, bc), Score(j, 0)}

\* Three anomalies flagged under a density shortfall: the score 0.5 is
\* above the score 0.4 that two anomalies would give, and above the score
\* 0.3 the same anomalies give without the shortfall.
C11_Witness ==
    /\ Completed
    /\ Len(response.indicators) = 3
    /\ response.analysis_period.batches_analyzed
           < 6 * response.analysis_period.hours
    /\ DblLess(ThreatScore(AnomalyList(2),
                           response.analysis_period.batches_analyzed,
                           response.analysis_period.hours),
               response.threat_score)
    /\ DblLess(ThreatScore(response.indicators,
                           response.analysis_period.batches_analyzed, 0),
               response.threat_score)

(***************************************************************************)
(* Recommendations                                                         *)
(***************************************************************************)
\* C12: every completed analysis returns a non-empty recommendations list;
\* it is exactly <<"Continue normal operation">> if and only if there are
\* no anomalies, batch_count >= 10 and the level is neither HIGH nor
\* CRITICAL; otherwise it holds the triggered entries, in the order gaps
\* investigation, baseline collection, enhanced monitoring, device review,
\* and not the fallback entry.
C12_RecommendationsNeverEmpty ==
    Completed =>
        LET recs     == response.recommendations
            gaps     == response.indicators # <<>>
            baseline == response.analysis_period.batches_analyzed < 10
            elevated == response.threat_level \in {"HIGH", "CRITICAL"}
            entries  == <<"Investigate telemetry gaps for possible interference",
                          "Continue baseline collection for improved accuracy",
                          "Enable enhanced monitoring mode",
                          "Review device for surveillance indicators">>
            on       == <<gaps, baseline, elevated, elevated>>
        IN  /\ recs # <<>>
            /\ recs = <<"Continue normal operation">>
                   <=> (~gaps /\ ~baseline /\ ~elevated)
            /\ (gaps \/ baseline \/ elevated) =>
                   /\ \A i \in DOMAIN recs : recs[i] # "Continue normal operation"
                   /\ Len(recs) = Cardinality({e \in 1 .. 4 : on[e]})
                   /\ \A e \in 1 .. 4 :
                          on[e] <=> \E i \in DOMAIN recs : recs[i] = entries[e]
                   /\ \A i, j \in DOMAIN recs :
                          i < j => \E e, f \in 1 .. 4 :
                                       /\ e < f
                                       /\ recs[i] = entries[e]
                                       /\ recs[j] = entries[f]

\* Ten or more batches, no anomaly and a LOW level: nothing is triggered
\* and the list is the fallback entry alone.
C12_Witness ==
    /\ Completed
    /\ response.analysis_period.batches_analyzed >= 10
    /\ response.indicators = <<>>
    /\ response.threat_level = "LOW"
    /\ response.recommendations = <<"Continue normal operation">>

FracLeq(x, y) == x.num * y.den <= y.num * x.den

\* sum of sample_count over the stored batches of the request's window
SamplesInWindow(req) ==
    SumSeq([i \in 1 .. Len(TELEMETRY_STORE) |->
               IF /\ TELEMETRY_STORE[i].device_id = req.device_id
                  /\ TELEMETRY_STORE[i].received_at > now - req.time_range_hours
               THEN TELEMETRY_STORE[i].sample_count ELSE 0])

\* C14: for every completed analysis, whatever batches were accepted on
\* upload, the returned confidence is min(0.95, total_samples / 10000) with
\* total_samples the sum of sample_count over the in-window batches, lies
\* in [0, 0.95], and is non-decreasing in total_samples.
C14_ConfidenceInRange ==
    Completed =>
        LET c  == response.confidence
            ts == response.analysis_period.total_samples
        IN  /\ ts = SamplesInWindow(response.req)
            /\ IF ts * 100 >= 95 * 10000
               THEN c.num * 100 = 95 * c.den
               ELSE c.num * 10000 = ts * c.den
            /\ FracLeq(Confidence(ts - 1), c) /\ FracLeq(c, Confidence(ts + 1))
            /\ FracLeq([num |-> 0, den |-> 1], c)
            /\ FracLeq(c, [num |-> 95, den |-> 100])

(***************************************************************************)
(* The queries of the handlers                                             *)
(***************************************************************************)
\* q holds exactly the store entries at the indices idx, in store order:
\* the entry at index i is q's entry number |{j \in idx : j <= i}|
IsSubsequenceAt(q, idx) ==
    /\ Len(q) = Cardinality(idx)
    /\ \A i \in idx : q[Cardinality({j \in idx : j <= i})] = TELEMETRY_STORE[i]

\* C15: the batches an analysis works on are exactly the entries of the
\* current store with the requested device_id and received_at strictly
\* greater than the cutoff, in store order; those of a forensic request are
\* the entries with the device_id, in store order; for a device with no
\* stored batch the selection is the empty sequence.
C15_QueryIsOrderedSubsequence ==
    /\ response.kind = "analysis" =>
           LET since == now - response.req.time_range_hours
               idx   == {i \in BatchesOf(response.req.device_id) :
                            TELEMETRY_STORE[i].received_at > since}
           IN  /\ IsSubsequenceAt(response.device_batches, idx)
               /\ BatchesOf(response.req.device_id) = {} =>
                      response.device_batches = <<>>
    /\ response.kind = "forensic" =>
           /\ IsSubsequenceAt(response.device_batches,
                              BatchesOf(response.req.device_id))
           /\ BatchesOf(response.req.device_id) = {} =>
                  response.device_batches = <<>>

\* An analysis over a window of at least an hour selects one batch, the
\* second entry of the store, and leaves out the first, a batch of the same
\* device received exactly at the cutoff.
C15_Witness ==
    /\ response.kind = "analysis"
    /\ response.req.time_range_hours >= 1
    /\ Len(TELEMETRY_STORE) = 2
    /\ TELEMETRY_STORE[1].device_id = response.req.device_id
    /\ TELEMETRY_STORE[1].received_at = now - response.req.time_range_hours
    /\ response.device_batches = <<TELEMETRY_STORE[2]>>

(***************************************************************************)
(* Frame conditions                                                        *)
(***************************************************************************)
\* new is old with one entry appended, then possibly shortened from the front
AppendedOne(old, new) ==
    /\ new # <<>>
    /\ \E dropped \in 0 .. Len(old) :
           SubSeq(new, 1, Len(new) - 1) = SubSeq(old, dropped + 1, Len(old))

\* C16: stored entries are immutable and the stores independent.  A step
\* that ends an upload appends one batch to the telemetry store, dropping
\* entries from the front only, and leaves the threat store as it was; a
\* step that ends a threat report does the same to the threat store and
\* leaves the telemetry store as it was; a step of any other handler
\* (analysis, global snapshot, health, status, forensic report) or of the
\* clock leaves both stores as they were.  Every entry that stays in a
\* store stays equal, field by field.
C16_StoresIndependentEntriesImmutable ==
    [][ /\ response'.kind = "upload" =>
               /\ AppendedOne(TELEMETRY_STORE, TELEMETRY_STORE')
               /\ THREAT_DATABASE' = THREAT_DATABASE
        /\ response'.kind = "report" =>
               /\ AppendedOne(THREAT_DATABASE, THREAT_DATABASE')
               /\ TELEMETRY_STORE' = TELEMETRY_STORE
        /\ response'.kind \notin {"upload", "report"} =>
               /\ TELEMETRY_STORE' = TELEMETRY_STORE
               /\ THREAT_DATABASE' = THREAT_DATABASE ]_vars

\* An upload made one hour after an earlier upload and a threat report: the
\* earlier batch is still stored with its own received_at, and the threat
\* store holds exactly what was reported.
C16_Witness ==
    /\ response.kind = "upload"
    /\ now = 1
    /\ Len(TELEMETRY_STORE) = 2
    /\ TELEMETRY_STORE[1] = ingested[1]
    /\ TELEMETRY_STORE[1].received_at = 0
    /\ THREAT_DATABASE # <<>>
    /\ THREAT_DATABASE = reported

(***************************************************************************)
(* Lifetime of a stored batch                                              *)
(***************************************************************************)
\* C17: a batch enters the store at its upload and leaves it only by
\* oldest-first eviction.  For the i-th batch ever uploaded, after k
\* further uploads: while k < TELEMETRY_CAP (10000 in the code) the batch
\* is in the store, k places before the end, and every forensic request
\* for its device succeeds; from k = TELEMETRY_CAP on it is gone, the store
\* holding the TELEMETRY_CAP batches uploaded after it; whatever the
\* devices of the later batches and whatever the batch's own timestamps.
C17_StoredUntilCapFurtherUploads ==
    LET n == Len(ingested)
        m == Len(TELEMETRY_STORE)
    IN  \A i \in 1 .. n :
            LET k == n - i
            IN  /\ k < TELEMETRY_CAP =>
                       /\ m - k >= 1
                       /\ TELEMETRY_STORE[m - k] = ingested[i]
                       /\ (/\ response.kind = "forensic"
                           /\ response.req.device_id = ingested[i].device_id) =>
                              /\ response.status_code # 404
                              /\ response.status_code = 200
                /\ k >= TELEMETRY_CAP =>
                       /\ m = TELEMETRY_CAP
                       /\ \A j \in 1 .. m :
                              TELEMETRY_STORE[j] = ingested[n - m + j]

(***************************************************************************)
(* Identifiers returned by the inserts                                     *)
(***************************************************************************)
\* C18: an upload returns as batch_id the position the new batch has in
\* the store after any eviction, equal to the returned batches_stored (the
\* batch is the last entry); a threat report returns as threat_id the
\* length of the threat store after the insert.  So batch_id lies in
\* 1 .. TELEMETRY_CAP (1..10000 in the code) and threat_id in
\* 1 .. THREAT_CAP (1..1000).
C18_IdIsPositionAfterEviction ==
    /\ response.kind = "upload" =>
           /\ response.batch_id \in 1 .. TELEMETRY_CAP
           /\ response.batch_id = response.batches_stored
           /\ response.batch_id = Len(TELEMETRY_STORE)
           /\ TELEMETRY_STORE[response.batch_id] = ingested[Len(ingested)]
    /\ response.kind = "report" =>
           /\ response.threat_id \in 1 .. THREAT_CAP
           /\ response.threat_id = Len(THREAT_DATABASE)
           /\ THREAT_DATABASE[response.threat_id] = reported[Len(reported)]

\* An upload into a full store: the batch_id returned is the capacity, less
\* than the number of batches uploaded so far, and is the id the previous
\* upload returned too.
C18_Witness ==
    /\ response.kind = "upload"
    /\ response.batch_id = TELEMETRY_CAP
    /\ response.batch_id < Len(ingested)
    /\ TELEMETRY_STORE[response.batch_id - 1] = ingested[Len(ingested) - 1]

(***************************************************************************)
(* Indicators                                                              *)
(***************************************************************************)
\* C19: the indicator for the gap between the in-window batches k and k+1
\* (gap index k, counted from 0) is "Unusual gap in telemetry at batch k";
\* the indicators come in ascending gap index, at most one per gap, so
\* there are never more of them than batch_count - 1.
C19_IndicatorNamesGapIndex ==
    Completed =>
        LET db   == response.device_batches
            gaps == response.batch_intervals
            n    == Len(gaps)
            S    == SumSeq(gaps)
            Q    == SumSeq([j \in 1 .. n |-> (n * gaps[j] - S) * (n * gaps[j] - S)])
            \* the gaps flagged, by gap index counted from 0
            flagged == {k \in 0 .. (n - 1) : Outlier(n, S, Q, gaps[k + 1])}
        IN  /\ n = response.analysis_period.batches_analyzed - 1
            /\ \A k \in 0 .. (n - 1) :
                   gaps[k + 1] = db[k + 2].batch_start - db[k + 1].batch_end
            /\ Len(response.indicators) = Cardinality(flagged)
            /\ Len(response.indicators)
                   <= response.analysis_period.batches_analyzed - 1
            /\ \A k \in flagged :
                   response.indicators[Cardinality({j \in flagged : j <= k})]
                       = "Unusual gap in telemetry at batch " \o ToString(k)

\* Two gaps flagged, the first and the third of the window, with a batch of
\* another device stored between the first two batches of the window.
C19_Witness ==
    /\ Completed
    /\ Len(TELEMETRY_STORE) >= 2
    /\ TELEMETRY_STORE[2].device_id # response.req.device_id
    /\ response.indicators = <<"Unusual gap in telemetry at batch 0",
                               "Unusual gap in telemetry at batch 2">>

(***************************************************************************)
(* Short histories                                                         *)
(***************************************************************************)
\* C20: no gap is flagged unless the window has at least 11 gaps: for every
\* completed analysis of at most 11 in-window batches (at most 10 gaps),
\* whatever the gap values, the indicator list is empty and the score has
\* no anomaly term (it is 0, or 0.2 on a density shortfall).
C20_NoAnomalyUpToTenGaps ==
    (/\ Completed
     /\ response.analysis_period.batches_analyzed <= 11) =>
        /\ response.indicators = <<>>
        /\ response.threat_score =
               (IF response.analysis_period.batches_analyzed
                       < 6 * response.analysis_period.hours
                THEN D0_2 ELSE D0_0)
====
